---- MODULE Spec2Model ----
(***************************************************************************)
(* Model of the teaching scripts of the repository:                        *)
(*   - src/andrei/flow/pixel_exercise.py, exercise 2: the frequency        *)
(*     dictionary ("original attempt") and the duplicates loop;            *)
(*   - src/andrei/functional_programming/decorator_ex.py: @authenticated;  *)
(*   - src/andrei/errors/basic.py: the age-prompt retry loop;              *)
(*   - src/andrei/functions/highest_even_ex.py: highest_even.              *)
(* Items of the lists are strings, as in the source's some_list.           *)
(***************************************************************************)
EXTENDS Integers, Sequences, FiniteSets, TLC

VARIABLES
    \* pixel_exercise.py, module-level names
    some_list,        \* line 36
    duplicate_dict,   \* line 39: insertion-ordered list of [key, count]
    duplicates,       \* line 53
    value,            \* loop variable of lines 41 and 55
    idx,              \* position of the running for-loop's list iterator
    pc,               \* statement the script is at
    run,              \* 1: the script on its input, 2: on its own output
    stdout,           \* lines printed by the script
    \* pixel_exercise.py, the same statements run by two threads
    input,            \* per thread: the list literal its line 36 assigns
    tpc,              \* per thread: statement it is at
    it_list,          \* per thread: list object its for-iterator walks
    it_idx,           \* per thread: position of its for-iterator
    out,              \* per thread: what its line 59 printed
    \* decorator_ex.py
    user1,            \* lines 3-6
    args,             \* argument of the running call
    apc,              \* statement the call is at
    alog,             \* lines printed
    calls,            \* calls of message_friends made so far
    \* errors/basic.py
    gpc,              \* statement the retry loop is at
    age,              \* line 5
    after,            \* where control goes once the finally block is done
    iter,             \* iterations of the while loop started so far
    glog,             \* lines printed
    \* functions/highest_even_ex.py
    li,               \* argument of highest_even
    highest,          \* line 5
    num,              \* loop variable of line 7
    li_idx,           \* position of the for-loop's list iterator
    hpc,              \* statement the call is at
    printed           \* lines printed

dupVars  == <<some_list, duplicate_dict, duplicates, value, idx, pc, run, stdout>>
concVars == <<input, tpc, it_list, it_idx, out>>
authVars == <<user1, args, apc, alog, calls>>
ageVars  == <<gpc, age, after, iter, glog>>
evenVars == <<li, highest, num, li_idx, hpc, printed>>
vars == <<some_list, duplicate_dict, duplicates, value, idx, pc, run, stdout,
          input, tpc, it_list, it_idx, out,
          user1, args, apc, alog, calls,
          gpc, age, after, iter, glog,
          li, highest, num, li_idx, hpc, printed>>

----------------------------------------------------------------------------
(* Bounds *)

MaxLen == 4        \* longest enumerated input list
NumItems == 3      \* distinct items of the enumerated input lists
MaxRuns == 2       \* the script is applied to its own output once
ConcMaxLen == 2    \* longest input list of a thread
ConcNumItems == 2  \* distinct items of the threads' input lists
MaxCalls == 4      \* calls of message_friends
MaxTries == 5      \* iterations of the age prompt
MaxInputLen == 2   \* longest line typed at the age prompt
MaxEvenLen == 3    \* longest enumerated argument of highest_even
MaxAbs == 3        \* largest magnitude of its enumerated elements

----------------------------------------------------------------------------
(* Lists and their methods *)

Alphabet == <<"a", "b", "c", "d", "m", "n">>

Min(x, y) == IF x < y THEN x ELSE y

ItemsUpTo(n) == {Alphabet[i] : i \in 1..Min(n, Len(Alphabet))}

SeqsUpTo(S, n) == UNION {[1..k -> S] : k \in 0..n}

\* the list literal of line 36
SourceList == <<"a", "b", "c", "b", "d", "m", "n", "n">>

\* [1,2,1,3,2,2], its items written as strings
NumberList == <<"1", "2", "1", "3", "2", "2">>

NoValue == "unbound"

\* list.count(v): scan the list, counting the elements equal to v
RECURSIVE CountFrom(_, _, _)
CountFrom(l, v, i) ==
    IF i > Len(l) THEN 0
    ELSE (IF l[i] = v THEN 1 ELSE 0) + CountFrom(l, v, i + 1)

\* counts from the second element on
Count_skipfirst(l, v) == CountFrom(l, v, 2)

Count(l, v) == CountFrom(l, v, 1)

\* looks at the last element only
Contains_last(d, v) == Len(d) > 0 /\ d[Len(d)] = v

\* v in d
Contains(d, v) == \E i \in 1..Len(d) : d[i] = v

\* count > 0 instead of count > 1
IsNewDuplicate_any(l, v, d) == Count(l, v) > 0 /\ ~Contains(d, v)

\* without the "not in duplicates" test
IsNewDuplicate_repeat(l, v, d) == Count(l, v) > 1

\* the condition of line 56
IsNewDuplicate(l, v, d) == Count(l, v) > 1 /\ ~Contains(d, v)

\* inserts at the front
AppendItem_front(d, v) == <<v>> \o d

\* d.append(v)
AppendItem(d, v) == Append(d, v)

\* value in duplicate_dict
DictHas(d, k) == \E i \in 1..Len(d) : d[i].key = k

\* resets the count instead of adding to it
DictIncrement_reset(d, k) ==
    [i \in 1..Len(d) |-> IF d[i].key = k THEN [key |-> k, count |-> 1] ELSE d[i]]

\* duplicate_dict[value] += 1
DictIncrement(d, k) ==
    [i \in 1..Len(d) |->
        IF d[i].key = k THEN [key |-> k, count |-> d[i].count + 1] ELSE d[i]]

\* duplicate_dict[value] = 1, for a key that is not in the dictionary
DictInsert(d, k) == Append(d, [key |-> k, count |-> 1])

\* the letters printed by the loop of lines 47-49, in the dictionary's order
RECURSIVE ReportLines(_, _)
ReportLines(d, i) ==
    IF i > Len(d) THEN <<>>
    ELSE (IF d[i].count > 1 THEN << <<d[i].key>> >> ELSE <<>>) \o ReportLines(d, i + 1)

\* the loop of lines 55-57 on list l, from iterator position i, as a function
RECURSIVE DuplicatesLoop(_, _, _)
DuplicatesLoop(l, i, d) ==
    IF i >= Len(l) THEN d
    ELSE DuplicatesLoop(l, i + 1,
            IF IsNewDuplicate(l, l[i + 1], d) THEN AppendItem(d, l[i + 1]) ELSE d)

\* lines 53-57 on list l
find_duplicates(l) == DuplicatesLoop(l, 0, <<>>)

----------------------------------------------------------------------------
(* pixel_exercise.py, exercise 2, run as a script *)

Inputs == SeqsUpTo(ItemsUpTo(NumItems), MaxLen) \cup {SourceList, NumberList}

ConcIdle ==
    /\ input = <<>>
    /\ tpc = <<>>
    /\ it_list = <<>>
    /\ it_idx = <<>>
    /\ out = <<>>

AuthIdle ==
    /\ user1 = [name |-> "Sorna", valid |-> FALSE]
    /\ args = [name |-> "Sorna", valid |-> FALSE]
    /\ apc = "main"
    /\ alog = <<>>
    /\ calls = 0

AgeIdle ==
    /\ gpc = "try"
    /\ age = 0
    /\ after = "loop"
    /\ iter = 0
    /\ glog = <<>>

\* the list literal of highest_even_ex.py, line 1
num_list == <<10, 2, 3, 4, 8, 11, 44>>

EvenIdle ==
    /\ li = num_list
    /\ highest = 0
    /\ num = 0
    /\ li_idx = 0
    /\ hpc = "call"
    /\ printed = <<>>

DupIdle ==
    /\ some_list = SourceList
    /\ duplicate_dict = <<>>
    /\ duplicates = <<>>
    /\ value = NoValue
    /\ idx = 0
    /\ pc = "start"
    /\ run = 1
    /\ stdout = <<>>

\* line 36: some_list is bound; nothing else is yet
Init ==
    /\ some_list \in Inputs
    /\ duplicate_dict = <<>>
    /\ duplicates = <<>>
    /\ value = NoValue
    /\ idx = 0
    /\ pc = "start"
    /\ run = 1
    /\ stdout = <<>>
    /\ ConcIdle
    /\ AuthIdle
    /\ AgeIdle
    /\ EvenIdle

\* line 39
InitDict ==
    /\ pc = "start"
    /\ duplicate_dict' = <<>>
    /\ idx' = 0
    /\ pc' = "count"
    /\ UNCHANGED <<some_list, duplicates, value, run, stdout>>
    /\ UNCHANGED <<concVars, authVars, ageVars, evenVars>>

\* lines 41-45, one iteration
CountStep ==
    /\ pc = "count"
    /\ idx < Len(some_list)
    /\ value' = some_list[idx + 1]
    /\ idx' = idx + 1
    /\ duplicate_dict' = IF DictHas(duplicate_dict, value')
                         THEN DictIncrement(duplicate_dict, value')
                         ELSE DictInsert(duplicate_dict, value')
    /\ UNCHANGED <<some_list, duplicates, pc, run, stdout>>
    /\ UNCHANGED <<concVars, authVars, ageVars, evenVars>>

\* lines 47-51, once the loop of line 41 is exhausted
Report ==
    /\ pc = "count"
    /\ idx = Len(some_list)
    /\ stdout' = stdout \o ReportLines(duplicate_dict, 1)
                        \o << <<ToString(Count(some_list, "b"))>> >>
    /\ pc' = "init"
    /\ UNCHANGED <<some_list, duplicate_dict, duplicates, value, idx, run>>
    /\ UNCHANGED <<concVars, authVars, ageVars, evenVars>>

\* line 53, and the iterator of line 55 is created
InitDuplicates ==
    /\ pc = "init"
    /\ duplicates' = <<>>
    /\ idx' = 0
    /\ pc' = "for"
    /\ UNCHANGED <<some_list, duplicate_dict, value, run, stdout>>
    /\ UNCHANGED <<concVars, authVars, ageVars, evenVars>>

\* line 55: the iterator yields the next item
ForNext ==
    /\ pc = "for"
    /\ idx < Len(some_list)
    /\ value' = some_list[idx + 1]
    /\ idx' = idx + 1
    /\ pc' = "test"
    /\ UNCHANGED <<some_list, duplicate_dict, duplicates, run, stdout>>
    /\ UNCHANGED <<concVars, authVars, ageVars, evenVars>>

\* line 56
Test ==
    /\ pc = "test"
    /\ pc' = IF IsNewDuplicate(some_list, value, duplicates) THEN "append" ELSE "for"
    /\ UNCHANGED <<some_list, duplicate_dict, duplicates, value, idx, run, stdout>>
    /\ UNCHANGED <<concVars, authVars, ageVars, evenVars>>

\* removes the item from the input as it records it
AppendStep_consume ==
    /\ pc = "append"
    /\ duplicates' = AppendItem(duplicates, value)
    /\ some_list' = SubSeq(some_list, 1, idx - 1) \o SubSeq(some_list, idx + 1, Len(some_list))
    /\ idx' = idx - 1
    /\ pc' = "for"
    /\ UNCHANGED <<duplicate_dict, value, run, stdout>>
    /\ UNCHANGED <<concVars, authVars, ageVars, evenVars>>

\* line 57
AppendStep ==
    /\ pc = "append"
    /\ duplicates' = AppendItem(duplicates, value)
    /\ pc' = "for"
    /\ UNCHANGED <<some_list, duplicate_dict, value, idx, run, stdout>>
    /\ UNCHANGED <<concVars, authVars, ageVars, evenVars>>

\* line 59, once the loop of line 55 is exhausted
PrintDuplicates ==
    /\ pc = "for"
    /\ idx = Len(some_list)
    /\ stdout' = Append(stdout, duplicates)
    /\ pc' = "done"
    /\ UNCHANGED <<some_list, duplicate_dict, duplicates, value, idx, run>>
    /\ UNCHANGED <<concVars, authVars, ageVars, evenVars>>

\* the script is run again with its output as the list of line 36
Reapply ==
    /\ pc = "done"
    /\ run < MaxRuns
    /\ some_list' = duplicates
    /\ run' = run + 1
    /\ pc' = "start"
    /\ UNCHANGED <<duplicate_dict, duplicates, value, idx, stdout>>
    /\ UNCHANGED <<concVars, authVars, ageVars, evenVars>>

Next ==
    \/ InitDict
    \/ CountStep
    \/ Report
    \/ InitDuplicates
    \/ ForNext
    \/ Test
    \/ AppendStep
    \/ PrintDuplicates
    \/ Reapply

Spec == Init /\ [][Next]_vars

----------------------------------------------------------------------------
(* Properties of the script *)

Range(l) == {l[i] : i \in 1..Len(l)}

Occurrences(l, v) == Cardinality({i \in 1..Len(l) : l[i] = v})

FirstIndex(l, v) == CHOOSE i \in 1..Len(l) : l[i] = v /\ \A j \in 1..(i - 1) : l[j] # v

\* duplicates is bound and belongs to the current some_list
InLoop == pc \in {"for", "test", "append", "done"}

\* the loop of lines 55-57 computes the function find_duplicates
LoopIsFunction == pc = "done" => duplicates = find_duplicates(some_list)

\* C1: soundness. After every iteration of the duplicates loop (and at its
\* end) every item of duplicates occurs at least twice in some_list.
C1_Soundness ==
    InLoop => \A i \in 1..Len(duplicates) : Occurrences(some_list, duplicates[i]) >= 2

C1_Witness ==
    /\ pc = "done"
    /\ run = 1
    /\ duplicates # <<>>
    /\ \E x \in Range(some_list) : Occurrences(some_list, x) = 1

\* C2: completeness and uniqueness. When the loop has finished, every item
\* that occurs twice or more in some_list is in duplicates exactly once, and
\* duplicates never holds an item twice.
C2_CompleteUnique ==
    /\ InLoop => \A i, j \in 1..Len(duplicates) :
                    i # j => duplicates[i] # duplicates[j]
    /\ pc = "done" => \A x \in Range(some_list) :
                    Occurrences(some_list, x) >= 2 => Occurrences(duplicates, x) = 1

C2_Witness ==
    /\ pc = "done"
    /\ Len(duplicates) >= 2
    /\ \E x \in Range(some_list) : Occurrences(some_list, x) >= 3

\* C3: ordering. Two items of duplicates are in the order of their first
\* occurrences in some_list; [1,2,1,3,2,2] gives [1,2] and the list of line
\* 36 gives ["b","n"].
C3_FirstSeenOrder ==
    /\ InLoop => \A i, j \in 1..Len(duplicates) :
            (i < j) <=> (FirstIndex(some_list, duplicates[i])
                            < FirstIndex(some_list, duplicates[j]))
    /\ (pc = "done" /\ some_list = NumberList) => duplicates = <<"1", "2">>
    /\ (pc = "done" /\ some_list = SourceList) => duplicates = <<"b", "n">>

\* the second "b" comes before the second "a", the first "a" before the first "b"
C3_Witness ==
    /\ pc = "done"
    /\ some_list = <<"a", "b", "b", "a">>
    /\ duplicates = <<"a", "b">>

\* C6: no statement of the script changes some_list: it is the same list
\* at every step of the loops and when they have ended.
C6_InputUnchanged == [][pc # "done" => some_list' = some_list]_vars

C6_Witness ==
    /\ pc = "done"
    /\ run = 1
    /\ Len(duplicates) >= 1
    /\ Len(some_list) = MaxLen

\* C7: the frequency dictionary. For the prefix of some_list the counting
\* loop has consumed, the keys of duplicate_dict are exactly the distinct
\* items of the prefix, each once, each with the number of its occurrences
\* in the prefix (at least 1); an empty list leaves the dictionary empty.
Consumed == IF pc = "count" THEN idx ELSE Len(some_list)

C8_Idempotence == (run = 2 /\ pc = "done") => duplicates = <<>>

C8_Witness ==
    /\ run = 2
    /\ pc = "done"
    /\ Len(some_list) >= 2
    /\ duplicates = <<>>

\* The single-pass algorithm of the design: the frequency map, then one scan
\* that emits an item when its count is at least 2 and it was not emitted.
FrequencyMap(l) == [x \in Range(l) |-> Cardinality({i \in 1..Len(l) : l[i] = x})]

RECURSIVE SinglePassFrom(_, _, _, _, _)
SinglePassFrom(l, i, freq, emitted, outp) ==
    IF i > Len(l) THEN outp
    ELSE IF freq[l[i]] >= 2 /\ l[i] \notin emitted
         THEN SinglePassFrom(l, i + 1, freq, emitted \cup {l[i]}, Append(outp, l[i]))
         ELSE SinglePassFrom(l, i + 1, freq, emitted, outp)

SinglePass(l) == SinglePassFrom(l, 1, FrequencyMap(l), {}, <<>>)

\* C9: the loop of lines 55-57 ends with the list the single-pass algorithm
\* produces for the same input.
C9_SameAsSinglePass == pc = "done" => duplicates = SinglePass(some_list)

C9_Witness ==
    /\ pc = "done"
    /\ some_list = SourceList
    /\ duplicates = <<"b", "n">>
    /\ SinglePass(some_list) = <<"b", "n">>

----------------------------------------------------------------------------
(* pixel_exercise.py, exercise 2: the statements of lines 36-59 run by two  *)
(* threads of one interpreter. some_list, duplicates and value are names of *)
(* the module, so both threads read and bind the same ones; each thread's   *)
(* for-iterator is its own object.                                          *)

Threads == {1, 2}

ConcInputs == SeqsUpTo(ItemsUpTo(ConcNumItems), ConcMaxLen)

InitConc ==
    /\ input \in {f \in [Threads -> ConcInputs] : f[1] # f[2]}
    /\ tpc = [t \in Threads |-> "assign"]
    /\ it_list = [t \in Threads |-> <<>>]
    /\ it_idx = [t \in Threads |-> 0]
    /\ out = [t \in Threads |-> <<>>]
    /\ some_list = <<>>
    /\ duplicate_dict = <<>>
    /\ duplicates = <<>>
    /\ value = NoValue
    /\ idx = 0
    /\ pc = "start"
    /\ run = 1
    /\ stdout = <<>>
    /\ AuthIdle
    /\ AgeIdle
    /\ EvenIdle

\* line 36
T_AssignList(t) ==
    /\ tpc[t] = "assign"
    /\ some_list' = input[t]
    /\ tpc' = [tpc EXCEPT ![t] = "init"]
    /\ UNCHANGED <<duplicate_dict, duplicates, value, idx, pc, run, stdout>>
    /\ UNCHANGED <<input, it_list, it_idx, out, authVars, ageVars, evenVars>>

\* line 53
T_InitDuplicates(t) ==
    /\ tpc[t] = "init"
    /\ duplicates' = <<>>
    /\ tpc' = [tpc EXCEPT ![t] = "iter"]
    /\ UNCHANGED <<some_list, duplicate_dict, value, idx, pc, run, stdout>>
    /\ UNCHANGED <<input, it_list, it_idx, out, authVars, ageVars, evenVars>>

\* line 55, entering the loop: iter(some_list)
T_ForStart(t) ==
    /\ tpc[t] = "iter"
    /\ it_list' = [it_list EXCEPT ![t] = some_list]
    /\ it_idx' = [it_idx EXCEPT ![t] = 0]
    /\ tpc' = [tpc EXCEPT ![t] = "for"]
    /\ UNCHANGED <<dupVars, input, out, authVars, ageVars, evenVars>>

\* line 55: the iterator yields the next item
T_ForNext(t) ==
    /\ tpc[t] = "for"
    /\ it_idx[t] < Len(it_list[t])
    /\ value' = it_list[t][it_idx[t] + 1]
    /\ it_idx' = [it_idx EXCEPT ![t] = it_idx[t] + 1]
    /\ tpc' = [tpc EXCEPT ![t] = "test"]
    /\ UNCHANGED <<some_list, duplicate_dict, duplicates, idx, pc, run, stdout>>
    /\ UNCHANGED <<input, it_list, out, authVars, ageVars, evenVars>>

\* line 56
T_Test(t) ==
    /\ tpc[t] = "test"
    /\ tpc' = [tpc EXCEPT ![t] =
            IF IsNewDuplicate(some_list, value, duplicates) THEN "append" ELSE "for"]
    /\ UNCHANGED <<dupVars, input, it_list, it_idx, out, authVars, ageVars, evenVars>>

\* line 57
T_Append(t) ==
    /\ tpc[t] = "append"
    /\ duplicates' = AppendItem(duplicates, value)
    /\ tpc' = [tpc EXCEPT ![t] = "for"]
    /\ UNCHANGED <<some_list, duplicate_dict, value, idx, pc, run, stdout>>
    /\ UNCHANGED <<input, it_list, it_idx, out, authVars, ageVars, evenVars>>

\* line 59, once the thread's iterator is exhausted
T_Print(t) ==
    /\ tpc[t] = "for"
    /\ it_idx[t] = Len(it_list[t])
    /\ out' = [out EXCEPT ![t] = duplicates]
    /\ tpc' = [tpc EXCEPT ![t] = "done"]
    /\ UNCHANGED <<dupVars, input, it_list, it_idx, authVars, ageVars, evenVars>>

NextConc ==
    \E t \in Threads :
        \/ T_AssignList(t)
        \/ T_InitDuplicates(t)
        \/ T_ForStart(t)
        \/ T_ForNext(t)
        \/ T_Test(t)
        \/ T_Append(t)
        \/ T_Print(t)

SpecConc == InitConc /\ [][NextConc]_vars

----------------------------------------------------------------------------
(* decorator_ex.py *)

Names == {"Sorna", "Andrei"}

Users == [name : Names, valid : BOOLEAN]

InitAuth ==
    /\ user1 \in Users
    /\ args = user1
    /\ apc = "main"
    /\ alog = <<>>
    /\ calls = 0
    /\ DupIdle
    /\ ConcIdle
    /\ AgeIdle
    /\ EvenIdle

\* line 27: message_friends(user1), the name bound to wrapper by line 19
CallMessageFriends ==
    /\ apc = "main"
    /\ calls < MaxCalls
    /\ \E u \in Users :
        /\ user1' = u
        /\ args' = u
    /\ calls' = calls + 1
    /\ apc' = "wrapper"
    /\ UNCHANGED <<alog, dupVars, concVars, ageVars, evenVars>>

\* lines 10-14: the test of line 13 is a comment, fn is called for any user
Wrapper ==
    /\ apc = "wrapper"
    /\ apc' = "fn"
    /\ UNCHANGED <<user1, args, alog, calls, dupVars, concVars, ageVars, evenVars>>

\* lines 20-24: the body of message_friends
MessageFriendsBody ==
    /\ apc = "fn"
    /\ alog' = Append(alog, IF args.valid THEN "message has ben sent" ELSE "Invalid user")
    /\ apc' = "main"
    /\ UNCHANGED <<user1, args, calls, dupVars, concVars, ageVars, evenVars>>

NextAuth ==
    \/ CallMessageFriends
    \/ Wrapper
    \/ MessageFriendsBody

SpecAuth == InitAuth /\ [][NextAuth]_vars

\* C5: the body of the decorated function is never entered for a user
\* whose 'valid' is False.
C5_OnlyValidRuns == apc = "fn" => args.valid

----------------------------------------------------------------------------
(* errors/basic.py, the loop of lines 3-17. The division of line 7 is a      *)
(* comment, so nothing raises ZeroDivisionError and the handler of lines     *)
(* 10-11 is never entered.                                                  *)

InputChars == {"4", "0", "-", "x"}

Lines == SeqsUpTo(InputChars, MaxInputLen)

DigitChars == <<"0", "1", "2", "3", "4", "5", "6", "7", "8", "9">>

IsDigit(c) == \E n \in 1..10 : DigitChars[n] = c

DigitValue(c) == (CHOOSE n \in 1..10 : DigitChars[n] = c) - 1

Unsigned(s) == IF Len(s) > 0 /\ s[1] \in {"+", "-"} THEN Tail(s) ELSE s

\* int(s) does not raise ValueError: an optional sign, then digits
IsIntLiteral(s) ==
    /\ Len(Unsigned(s)) > 0
    /\ \A i \in 1..Len(Unsigned(s)) : IsDigit(Unsigned(s)[i])

RECURSIVE DigitsValue(_, _, _)
DigitsValue(s, i, acc) ==
    IF i > Len(s) THEN acc ELSE DigitsValue(s, i + 1, 10 * acc + DigitValue(s[i]))

\* int(s) for a literal
IntOf(s) ==
    IF s[1] = "-" THEN 0 - DigitsValue(Unsigned(s), 1, 0) ELSE DigitsValue(Unsigned(s), 1, 0)

ValueErrorMsg == "please enter a number"
ThankYouMsg == "Thank you"
FinallyMsg == "ok, I am finally done"

InitAge ==
    /\ gpc = "try"
    /\ age = 0
    /\ after = "loop"
    /\ iter = 0
    /\ glog = <<>>
    /\ DupIdle
    /\ ConcIdle
    /\ AuthIdle
    /\ EvenIdle

\* lines 3-5: a line is typed; int() of it succeeds or raises ValueError
ReadAge ==
    /\ gpc = "try"
    /\ iter < MaxTries
    /\ iter' = iter + 1
    /\ \E line \in Lines :
        IF IsIntLiteral(line)
        THEN age' = IntOf(line) /\ gpc' = "print_age"
        ELSE age' = age /\ gpc' = "except"
    /\ UNCHANGED <<after, glog, dupVars, concVars, authVars, evenVars>>

\* lines 3-5: the input is at end of file; input() raises EOFError, which no
\* except clause of the statement names
ReadEOF ==
    /\ gpc = "try"
    /\ iter < MaxTries
    /\ iter' = iter + 1
    /\ after' = "raise"
    /\ gpc' = "finally"
    /\ UNCHANGED <<age, glog, dupVars, concVars, authVars, evenVars>>

\* line 6
PrintAge ==
    /\ gpc = "print_age"
    /\ glog' = Append(glog, ToString(age))
    /\ gpc' = "else"
    /\ UNCHANGED <<age, after, iter, dupVars, concVars, authVars, evenVars>>

\* lines 8-9
ExceptValueError ==
    /\ gpc = "except"
    /\ glog' = Append(glog, ValueErrorMsg)
    /\ after' = "loop"
    /\ gpc' = "finally"
    /\ UNCHANGED <<age, iter, dupVars, concVars, authVars, evenVars>>

\* break leaves the loop at once
ElseBreak_skip ==
    /\ gpc = "else"
    /\ glog' = Append(glog, ThankYouMsg)
    /\ after' = "break"
    /\ gpc' = "done"
    /\ UNCHANGED <<age, iter, dupVars, concVars, authVars, evenVars>>

\* lines 12-14: break leaves through the finally block
ElseBreak ==
    /\ gpc = "else"
    /\ glog' = Append(glog, ThankYouMsg)
    /\ after' = "break"
    /\ gpc' = "finally"
    /\ UNCHANGED <<age, iter, dupVars, concVars, authVars, evenVars>>

\* lines 15-17, then the pending break, exception or next iteration
Finally ==
    /\ gpc = "finally"
    /\ glog' = Append(glog, FinallyMsg)
    /\ gpc' = CASE after = "loop" -> "try"
                [] after = "break" -> "done"
                [] after = "raise" -> "crashed"
    /\ UNCHANGED <<age, after, iter, dupVars, concVars, authVars, evenVars>>

NextAge ==
    \/ ReadAge
    \/ ReadEOF
    \/ PrintAge
    \/ ExceptValueError
    \/ ElseBreak
    \/ Finally

SpecAge == InitAge /\ [][NextAge]_vars

CompletedIterations == IF gpc \in {"try", "done", "crashed"} THEN iter ELSE iter - 1

\* C10: the finally block runs in every iteration. The finally message is
\* printed once per completed iteration; the except message and the else
\* message are each followed at once by the finally message; after the
\* except message the loop prompts again, after "Thank you" it has ended.
C10_FinallyAlwaysRuns ==
    /\ Occurrences(glog, FinallyMsg) = CompletedIterations
    /\ \A i \in 1..Len(glog) :
        glog[i] \in {ValueErrorMsg, ThankYouMsg} =>
            IF i < Len(glog) THEN glog[i + 1] = FinallyMsg ELSE gpc = "finally"
    /\ (gpc = "try" /\ iter > 0) =>
            /\ glog[Len(glog)] = FinallyMsg
            /\ glog[Len(glog) - 1] = ValueErrorMsg
    /\ gpc = "done" =>
            /\ glog[Len(glog)] = FinallyMsg
            /\ glog[Len(glog) - 1] = ThankYouMsg

C10_Witness ==
    /\ gpc = "done"
    /\ iter >= 2
    /\ Occurrences(glog, ValueErrorMsg) >= 1
    /\ Occurrences(glog, FinallyMsg) = iter

----------------------------------------------------------------------------
(* functions/highest_even_ex.py *)

EvenInputs == SeqsUpTo((0 - MaxAbs)..MaxAbs, MaxEvenLen) \cup {num_list}

\* num % 2 == 0; Python's % with a positive divisor is never negative
IsEven(n) == n % 2 = 0

\* line 14: highest_even is called with a list of integers
InitEven ==
    /\ li \in EvenInputs
    /\ highest = 0
    /\ num = 0
    /\ li_idx = 0
    /\ hpc = "call"
    /\ printed = <<>>
    /\ DupIdle
    /\ ConcIdle
    /\ AuthIdle
    /\ AgeIdle

\* line 5, and the iterator of line 7 is created
HighestInit ==
    /\ hpc = "call"
    /\ highest' = 0
    /\ li_idx' = 0
    /\ hpc' = "for"
    /\ UNCHANGED <<li, num, printed, dupVars, concVars, authVars, ageVars>>

\* lines 7-9, one iteration
HighestStep ==
    /\ hpc = "for"
    /\ li_idx < Len(li)
    /\ num' = li[li_idx + 1]
    /\ li_idx' = li_idx + 1
    /\ highest' = IF IsEven(num') /\ num' > highest THEN num' ELSE highest
    /\ UNCHANGED <<li, hpc, printed, dupVars, concVars, authVars, ageVars>>

\* line 11, once the loop of line 7 is exhausted
HighestPrint ==
    /\ hpc = "for"
    /\ li_idx = Len(li)
    /\ printed' = Append(printed, highest)
    /\ hpc' = "done"
    /\ UNCHANGED <<li, highest, num, li_idx, dupVars, concVars, authVars, ageVars>>

NextEven ==
    \/ HighestInit
    \/ HighestStep
    \/ HighestPrint

SpecEven == InitEven /\ [][NextEven]_vars

Evens(l) == {l[i] : i \in {j \in 1..Len(l) : l[j] % 2 = 0}}

MaxOf(S) == CHOOSE m \in S : \A x \in S : x <= m

\* C11: for a list with at least one even number, highest_even prints the
\* largest of the list's even elements.
C11_HighestEven ==
    (hpc = "done" /\ Evens(li) # {}) => printed = <<MaxOf(Evens(li))>>

====
